---- MODULE Spec2Model ----
(***************************************************************************)
(* Model of SurgeriesSchedulingProblem (surgeries_scheduling_problem.py):  *)
(* the instance data, evaluate_solution and random_solution.               *)
(*                                                                         *)
(* Python lists are sequences; a Python index i is position i + 1.         *)
(* Surgery, room and nurse indices keep their 0-based Python values.       *)
(* A score is kept exactly as mega * 1e6 + rest with 0 <= rest < 1e6, so   *)
(* that penalties of millions of units stay inside TLC's integers.         *)
(***************************************************************************)
EXTENDS Integers, Sequences, FiniteSets, TLC

VARIABLES
    self,          \* the problem instance (the fields set by __init__)
    candidate,     \* the candidate last produced or handed to the evaluator
    result,        \* outcome of the last evaluate_solution call
    prev,          \* candidate and outcome of the evaluation before that
    op             \* the last operation performed

vars == <<self, candidate, result, prev, op>>

\* The penalty unit 1e6 used by every penalty term of evaluate_solution.
PENALTY == 1000000

----------------------------------------------------------------------------
(* Helpers for Python list semantics *)

At(list, i) == list[i + 1]

Range0(n) == 0 .. (n - 1)

Abs(x) == IF x < 0 THEN -x ELSE x

Max0(x) == IF x > 0 THEN x ELSE 0

RECURSIVE SumSeq(_)
SumSeq(q) == IF q = <<>> THEN 0 ELSE Head(q) + SumSeq(Tail(q))

RECURSIVE MaxSeq(_)
MaxSeq(q) ==
    IF Len(q) = 1 THEN q[1]
    ELSE LET m == MaxSeq(Tail(q)) IN IF q[1] >= m THEN q[1] ELSE m

\* candidate.get(key, [])
Get(cand, key) == IF key \in DOMAIN cand THEN cand[key] ELSE <<>>

\* One step of a stable sort by key surgery_start[s]: x goes after every
\* element whose key is not greater than its own.
InsertByStart(sorted, x, surgery_start) ==
    LET k == Cardinality({i \in 1 .. Len(sorted) :
                            At(surgery_start, sorted[i]) <= At(surgery_start, x)})
    IN  SubSeq(sorted, 1, k) \o <<x>> \o SubSeq(sorted, k + 1, Len(sorted))

\* list.sort(key=lambda s: surgery_start[s]) / sorted(list, key=...): stable.
RECURSIVE SortByStart(_, _)
SortByStart(list, surgery_start) ==
    IF list = <<>> THEN <<>>
    ELSE InsertByStart(SortByStart(SubSeq(list, 1, Len(list) - 1), surgery_start),
                       list[Len(list)], surgery_start)

----------------------------------------------------------------------------
(* __init__: the instance fields; hour-denominated values are stored *60 *)

Instance(num_rooms, num_nurses, num_surgeries, min_start_h, max_end_h, duration, needed_nurses, earliest_h, latest_h, max_shift_h, incompatible_rooms) ==
    [ num_rooms            |-> num_rooms,
      num_nurses           |-> num_nurses,
      num_surgeries        |-> num_surgeries,
      min_start            |-> [s \in 1 .. num_surgeries |-> min_start_h[s] * 60],
      max_end              |-> [s \in 1 .. num_surgeries |-> max_end_h[s] * 60],
      duration             |-> [s \in 1 .. num_surgeries |-> duration[s]],
      needed_nurses        |-> [s \in 1 .. num_surgeries |-> needed_nurses[s]],
      shift_earliest_start |-> [n \in 1 .. num_nurses |-> earliest_h[n] * 60],
      shift_latest_end     |-> [n \in 1 .. num_nurses |-> latest_h[n] * 60],
      max_shift_duration   |-> max_shift_h * 60,
      incompatible_rooms   |-> [s \in 1 .. num_surgeries |->
                                  [r \in 1 .. num_rooms |-> incompatible_rooms[s][r]]] ]

----------------------------------------------------------------------------
(* evaluate_solution, block by block; every penalty is counted in units   *)
(* of PENALTY                                                              *)

\* "Check basic lengths."
LengthPenalty(inst, cand) ==
    IF \/ Len(Get(cand, "surgery_room")) # inst.num_surgeries
       \/ Len(Get(cand, "surgery_start")) # inst.num_surgeries
       \/ Len(Get(cand, "surgery_end")) # inst.num_surgeries
    THEN 1 ELSE 0

\* "Verify each surgery's time constraints.": the three terms of surgery s
MinStartPenalty(inst, cand, s) ==
    LET st == At(Get(cand, "surgery_start"), s)
    IN  IF st < At(inst.min_start, s) THEN At(inst.min_start, s) - st ELSE 0

MaxEndPenalty(inst, cand, s) ==
    LET en == At(Get(cand, "surgery_end"), s)
    IN  IF en > At(inst.max_end, s) THEN en - At(inst.max_end, s) ELSE 0

\* Mutant: a mismatch of any size costs one flat unit.
DurationPenalty_flat(inst, cand, s) ==
    LET st == At(Get(cand, "surgery_start"), s)
        en == At(Get(cand, "surgery_end"), s)
    IN  IF en - st # At(inst.duration, s) THEN 1 ELSE 0

\* Mutant: the deviation is added without abs().
DurationPenalty_signed(inst, cand, s) ==
    LET st == At(Get(cand, "surgery_start"), s)
        en == At(Get(cand, "surgery_end"), s)
    IN  IF en - st # At(inst.duration, s)
        THEN (en - st) - At(inst.duration, s) ELSE 0

DurationPenalty(inst, cand, s) ==
    LET st == At(Get(cand, "surgery_start"), s)
        en == At(Get(cand, "surgery_end"), s)
    IN  IF en - st # At(inst.duration, s)
        THEN Abs((en - st) - At(inst.duration, s)) ELSE 0

TimePenalty(inst, cand, s) ==
    IF s < Len(Get(cand, "surgery_start")) /\ s < Len(Get(cand, "surgery_end"))
    THEN MinStartPenalty(inst, cand, s) + MaxEndPenalty(inst, cand, s)
           + DurationPenalty(inst, cand, s)
    ELSE 1

\* "Check room assignment compatibility.": the flat penalty of surgery s
RoomPenalty(inst, cand, s) ==
    LET r == At(Get(cand, "surgery_room"), s)
    IN  IF r < 0 \/ r >= inst.num_rooms \/ At(At(inst.incompatible_rooms, s), r) = 1
        THEN 1 ELSE 0

\* room_assignments[r].append(s) on a dict keyed by range(num_rooms): a key
\* outside the range raises KeyError
RoomKeyError(inst, cand) ==
    \E s \in Range0(Len(Get(cand, "surgery_room"))) :
        At(Get(cand, "surgery_room"), s) \notin Range0(inst.num_rooms)

\* room_assignments[r]: the surgeries of room r in enumeration order
room_assignments(cand, r) ==
    LET surgery_room == Get(cand, "surgery_room")
    IN  SelectSeq([i \in 1 .. Len(surgery_room) |-> i - 1],
                  LAMBDA s : At(surgery_room, s) = r)

\* Mutant: the room's surgeries are left in enumeration order.
surgeries_in_room_unsorted(cand, r) == room_assignments(cand, r)

\* surgeries_in_room.sort(key=lambda s: surgery_start[s])
surgeries_in_room(cand, r) ==
    SortByStart(room_assignments(cand, r), Get(cand, "surgery_start"))

\* "For each room, ensure surgeries do not overlap.": adjacent pairs of room r
OverlapPenalty(cand, r) ==
    LET in_room == surgeries_in_room(cand, r)
        surgery_start == Get(cand, "surgery_start")
        surgery_end == Get(cand, "surgery_end")
    IN  SumSeq([i \in 1 .. Len(in_room) - 1 |->
                  IF At(surgery_end, in_room[i]) > At(surgery_start, in_room[i + 1])
                  THEN At(surgery_end, in_room[i]) - At(surgery_start, in_room[i + 1])
                  ELSE 0])

\* The lookups of the overlap loop that fall outside surgery_start (the sort
\* key of every surgery of the room) or surgery_end (every surgery of the
\* sorted room but the last)
OverlapIndexError(inst, cand) ==
    \E r \in Range0(inst.num_rooms) :
        LET in_room == room_assignments(cand, r)
        IN  \/ \E i \in 1 .. Len(in_room) :
                  in_room[i] >= Len(Get(cand, "surgery_start"))
            \/ /\ \A i \in 1 .. Len(in_room) :
                     in_room[i] < Len(Get(cand, "surgery_start"))
               /\ \E i \in 1 .. Len(in_room) - 1 :
                     surgeries_in_room(cand, r)[i] >= Len(Get(cand, "surgery_end"))

\* assigned = nurse_assignment[n] if n < len(nurse_assignment) else []
Assigned(cand, n) ==
    IF n < Len(Get(cand, "nurse_assignment"))
    THEN At(Get(cand, "nurse_assignment"), n) ELSE <<>>

\* Mutant: equal start times must also follow surgery index order.
OrderPenalty_by_index(cand, n) ==
    LET assigned == Assigned(cand, n)
        surgery_start == Get(cand, "surgery_start")
    IN  IF assigned # <<>>
           /\ \E i \in 1 .. Len(assigned) - 1 :
                 ~ \/ At(surgery_start, assigned[i]) < At(surgery_start, assigned[i + 1])
                   \/ /\ At(surgery_start, assigned[i]) = At(surgery_start, assigned[i + 1])
                      /\ assigned[i] < assigned[i + 1]
        THEN 1 ELSE 0

\* "if assigned != sorted_assigned: penalty += 1e6"
OrderPenalty(cand, n) ==
    LET assigned == Assigned(cand, n)
    IN  IF assigned # <<>>
           /\ assigned # SortByStart(assigned, Get(cand, "surgery_start"))
        THEN 1 ELSE 0

\* shift earliest start, latest end and maximum duration of nurse n
ShiftPenalty(inst, cand, n) ==
    LET assigned == Assigned(cand, n)
    IN  IF assigned = <<>> THEN 0
        ELSE LET first_start == At(Get(cand, "surgery_start"), assigned[1])
                 last_end == At(Get(cand, "surgery_end"), assigned[Len(assigned)])
             IN  (IF first_start < At(inst.shift_earliest_start, n)
                  THEN At(inst.shift_earliest_start, n) - first_start ELSE 0)
               + (IF last_end > At(inst.shift_latest_end, n)
                  THEN last_end - At(inst.shift_latest_end, n) ELSE 0)
               + (IF last_end - first_start > inst.max_shift_duration
                  THEN (last_end - first_start) - inst.max_shift_duration ELSE 0)

\* The lookups of the nurse loop that fall outside surgery_start/surgery_end
NurseIndexError(inst, cand) ==
    \E n \in Range0(inst.num_nurses) :
        LET assigned == Assigned(cand, n)
        IN  /\ assigned # <<>>
            /\ \/ \E i \in 1 .. Len(assigned) :
                     assigned[i] >= Len(Get(cand, "surgery_start"))
               \/ assigned[Len(assigned)] >= Len(Get(cand, "surgery_end"))

\* "for s in nurse_assignment[n]" with n in range(num_nurses): no length guard
HeadcountIndexError(inst, cand) ==
    Len(Get(cand, "nurse_assignment")) < inst.num_nurses

\* nurse_count[s]
nurse_count(inst, cand, s) ==
    SumSeq([n \in 1 .. inst.num_nurses |->
              LET list == At(Get(cand, "nurse_assignment"), n - 1)
              IN  Cardinality({i \in 1 .. Len(list) : list[i] = s})])

\* Mutant: a shortfall of any size costs one flat unit.
HeadcountPenalty_flat(inst, cand, s) ==
    IF nurse_count(inst, cand, s) < At(inst.needed_nurses, s) THEN 1 ELSE 0

\* "Check that each surgery is assigned to enough nurses."
HeadcountPenalty(inst, cand, s) ==
    IF nurse_count(inst, cand, s) < At(inst.needed_nurses, s)
    THEN At(inst.needed_nurses, s) - nurse_count(inst, cand, s) ELSE 0

\* Mutant: the end time of the last surgery instead of the maximum.
Makespan_last(cand) ==
    IF Get(cand, "surgery_end") # <<>>
    THEN Get(cand, "surgery_end")[Len(Get(cand, "surgery_end"))]
    ELSE PENALTY

\* "Objective: makespan = maximum end time over all surgeries."
Makespan(cand) ==
    IF Get(cand, "surgery_end") # <<>> THEN MaxSeq(Get(cand, "surgery_end"))
    ELSE PENALTY

\* makespan + penalty, penalty being units * 1e6
Score(makespan, units) ==
    [mega |-> units + (makespan \div PENALTY), rest |-> makespan % PENALTY]

\* The total of the penalty terms, in the order the code adds them
PenaltyUnits(inst, cand) ==
      LengthPenalty(inst, cand)
    + SumSeq([i \in 1 .. inst.num_surgeries |-> TimePenalty(inst, cand, i - 1)])
    + SumSeq([i \in 1 .. Len(Get(cand, "surgery_room")) |-> RoomPenalty(inst, cand, i - 1)])
    + SumSeq([i \in 1 .. inst.num_rooms |-> OverlapPenalty(cand, i - 1)])
    + SumSeq([i \in 1 .. inst.num_nurses |->
                OrderPenalty(cand, i - 1) + ShiftPenalty(inst, cand, i - 1)])
    + SumSeq([i \in 1 .. inst.num_surgeries |-> HeadcountPenalty(inst, cand, i - 1)])

\* The exception evaluate_solution ends in, "none" when it returns
Fault(inst, cand) ==
    IF RoomKeyError(inst, cand) THEN "KeyError"
    ELSE IF \/ OverlapIndexError(inst, cand)
            \/ NurseIndexError(inst, cand)
            \/ HeadcountIndexError(inst, cand)
         THEN "IndexError"
         ELSE "none"

Raised(fault) == [status |-> fault, mega |-> 0, rest |-> 0]

Returned(score) == [status |-> "ok", mega |-> score.mega, rest |-> score.rest]

evaluate_solution(inst, cand) ==
    IF Fault(inst, cand) # "none" THEN Raised(Fault(inst, cand))
    ELSE Returned(Score(Makespan(cand), PenaltyUnits(inst, cand)))

----------------------------------------------------------------------------
(* The instances and candidates the evaluator is exercised on *)

\* Candidate timestamps lie on a half-hour grid of MaxTick steps.
MaxTick == 3

TimeVals == {30 * k : k \in 0 .. MaxTick}

\* Scenario A/B of the specification: one room, one nurse, one surgery with
\* window [0, 120], duration 60, one nurse needed, shift over the window.
ScenarioInstance ==
    Instance(1, 1, 1, <<0>>, <<2>>, <<60>>, <<1>>, <<0>>, <<2>>, 2, <<<<0>>>>)

\* Two surgeries, two rooms, two nurses; surgery 0 cannot use room 1.
TwoRoomInstance ==
    Instance(2, 2, 2, <<0, 0>>, <<1, 2>>, <<30, 60>>, <<1, 2>>,
             <<0, 1>>, <<2, 2>>, 1, <<<<0, 1>>, <<0, 0>>>>)

\* Three surgeries sharing one room and one nurse.
OneRoomInstance ==
    Instance(1, 1, 3, <<0, 0, 0>>, <<1, 2, 2>>, <<30, 30, 30>>, <<1, 0, 1>>,
             <<0>>, <<2>>, 2, <<<<0>>, <<0>>, <<0>>>>)

Instances == {ScenarioInstance, TwoRoomInstance, OneRoomInstance}

\* The lists of distinct surgery indices a nurse may be given
NurseLists(num_surgeries) ==
    {q \in UNION {[1 .. k -> Range0(num_surgeries)] : k \in 0 .. num_surgeries} :
        \A i, j \in 1 .. Len(q) : i # j => q[i] # q[j]}

\* Structurally complete candidates: four lists of the right lengths, rooms in range
WellFormed(inst) ==
    [ surgery_room     : [1 .. inst.num_surgeries -> Range0(inst.num_rooms)],
      surgery_start    : [1 .. inst.num_surgeries -> TimeVals],
      surgery_end      : [1 .. inst.num_surgeries -> TimeVals],
      nurse_assignment : [1 .. inst.num_nurses -> NurseLists(inst.num_surgeries)] ]

NoCandidate == [none |-> TRUE]

NoResult == [status |-> "none", mega |-> 0, rest |-> 0]

NoPrev == [candidate |-> NoCandidate, result |-> NoResult]

----------------------------------------------------------------------------
(* Operations *)

\* The search driver hands a candidate to evaluate_solution.
EvaluateFrom(cands) ==
    /\ op = "idle"
    /\ \E c \in cands :
          /\ candidate' = c
          /\ result' = evaluate_solution(self, c)
    /\ op' = "evaluate_solution"
    /\ UNCHANGED <<self, prev>>

Evaluate == EvaluateFrom(WellFormed(self))

\* The call has returned (or raised); the instance keeps no call state.
Return ==
    /\ op # "idle"
    /\ op' = "idle"
    /\ candidate' = NoCandidate
    /\ result' = NoResult
    /\ prev' = NoPrev
    /\ UNCHANGED self

InitFrom(insts) ==
    /\ self \in insts
    /\ candidate = NoCandidate
    /\ result = NoResult
    /\ prev = NoPrev
    /\ op = "idle"

Init == InitFrom(Instances)

Next == Evaluate \/ Return

Spec == Init /\ [][Next]_vars

----------------------------------------------------------------------------
(* Properties of evaluate_solution on structurally complete candidates *)

Evaluated == op = "evaluate_solution"

Surgeries == Range0(self.num_surgeries)

Nurses == Range0(self.num_nurses)

StartOf(s) == At(candidate.surgery_start, s)

EndOf(s) == At(candidate.surgery_end, s)

RoomOf(s) == At(candidate.surgery_room, s)

MaxOf(S) == CHOOSE m \in S : \A x \in S : x <= m

\* A list of surgeries is in non-decreasing order of start time
NonDecreasing(list) ==
    \A i \in 1 .. Len(list) - 1 : StartOf(list[i]) <= StartOf(list[i + 1])

\* Two distinct surgeries of one room: one ends no later than the other starts
Disjoint(a, b) == EndOf(a) <= StartOf(b) \/ EndOf(b) <= StartOf(a)

PairwiseDisjoint ==
    \A a, b \in Surgeries : (a # b /\ RoomOf(a) = RoomOf(b)) => Disjoint(a, b)

\* The six rules of the evaluator, stated on the candidate itself
Feasible ==
    /\ Len(candidate.surgery_room) = self.num_surgeries
    /\ Len(candidate.surgery_start) = self.num_surgeries
    /\ Len(candidate.surgery_end) = self.num_surgeries
    /\ Len(candidate.nurse_assignment) = self.num_nurses
    /\ \A s \in Surgeries :
          /\ StartOf(s) >= At(self.min_start, s)
          /\ EndOf(s) <= At(self.max_end, s)
          /\ EndOf(s) - StartOf(s) = At(self.duration, s)
          /\ RoomOf(s) \in Range0(self.num_rooms)
          /\ At(At(self.incompatible_rooms, s), RoomOf(s)) # 1
    /\ PairwiseDisjoint
    /\ \A n \in Nurses :
          LET list == At(candidate.nurse_assignment, n)
          IN  list # <<>> =>
                /\ NonDecreasing(list)
                /\ StartOf(list[1]) >= At(self.shift_earliest_start, n)
                /\ EndOf(list[Len(list)]) <= At(self.shift_latest_end, n)
                /\ EndOf(list[Len(list)]) - StartOf(list[1]) <= self.max_shift_duration
    /\ \A s \in Surgeries :
          Cardinality({n \in Nurses :
                         \E i \in 1 .. Len(At(candidate.nurse_assignment, n)) :
                            At(candidate.nurse_assignment, n)[i] = s})
            >= At(self.needed_nurses, s)

\* C3: a candidate that violates none of the six rules is scored exactly
\* max(surgery_end): evaluate_solution returns, and the penalty is zero.
C3_FeasibleScoreIsMakespan ==
    (Evaluated /\ Feasible) =>
        /\ result.status = "ok"
        /\ result.mega = 0
        /\ result.rest = MaxOf({EndOf(s) : s \in Surgeries})

\* A feasible schedule of several surgeries with a nurse working two of them
C3_Witness ==
    /\ Evaluated /\ Feasible
    /\ self.num_surgeries >= 2
    /\ \E n \in Nurses : Len(At(candidate.nurse_assignment, n)) >= 2
    /\ result.rest = MaxOf({EndOf(s) : s \in Surgeries})

ScenarioB ==
    [ surgery_room |-> <<0>>, surgery_start |-> <<0>>, surgery_end |-> <<90>>,
      nurse_assignment |-> <<<<0>>>> ]

InScenarioB == Evaluated /\ self = ScenarioInstance /\ candidate = ScenarioB

\* C4 (amended): Scenario B, the one-surgery instance with start 0 and end 90
\* against a duration of 60, is scored exactly 90 + 1e6*30: the makespan is
\* the end time 90, and the duration mismatch of 30 costs 30 penalty units.
C4_ScenarioBScore ==
    InScenarioB => result = [status |-> "ok", mega |-> 30, rest |-> 90]

C4_Witness == InScenarioB /\ result.status = "ok"

\* C4 as stated: Scenario B is scored exactly 60 + 1e6*30.
C4_Original ==
    InScenarioB => result = [status |-> "ok", mega |-> 30, rest |-> 60]

\* C8: for every nurse with a non-empty list, the flat ordering penalty is
\* added if and only if the list as given is not in non-decreasing order of
\* surgery_start; ties may appear in any index order.
C8_OrderCheckedAsGiven ==
    (Evaluated /\ result.status = "ok") =>
        \A n \in Nurses :
            LET list == At(candidate.nurse_assignment, n)
            IN  list # <<>> =>
                  /\ OrderPenalty(candidate, n) \in {0, 1}
                  /\ OrderPenalty(candidate, n) = 1 <=> ~NonDecreasing(list)

\* One nurse lists equal-start surgeries against index order unpenalised,
\* another candidate's sortable-but-unsorted list is penalised
C8_Witness ==
    /\ Evaluated /\ result.status = "ok"
    /\ \E n \in Nurses :
          LET list == At(candidate.nurse_assignment, n)
          IN  /\ Len(list) = 3
              /\ list[1] > list[2]
              /\ StartOf(list[1]) = StartOf(list[2])
              /\ StartOf(list[2]) < StartOf(list[3])
              /\ OrderPenalty(candidate, n) = 0

\* C9: when every surgery starts before it ends, the adjacent-pair overlap
\* penalty over all rooms is zero if and only if any two distinct surgeries
\* of the same room are disjoint.
C9_AdjacentCheckMissesNoOverlap ==
    (Evaluated /\ result.status = "ok" /\ \A s \in Surgeries : StartOf(s) < EndOf(s)) =>
        ( SumSeq([i \in 1 .. self.num_rooms |-> OverlapPenalty(candidate, i - 1)]) = 0
            <=> PairwiseDisjoint )

\* Three surgeries of one room whose only overlap is between the first and
\* the last in index order, found although they are not neighbours there
C9_Witness ==
    /\ Evaluated /\ result.status = "ok"
    /\ self.num_surgeries = 3
    /\ \A s \in Surgeries : StartOf(s) < EndOf(s) /\ RoomOf(s) = 0
    /\ Disjoint(0, 1) /\ Disjoint(1, 2) /\ ~Disjoint(0, 2)
    /\ OverlapPenalty(candidate, 0) > 0

----------------------------------------------------------------------------
(* Malformed candidates: missing keys, short lists, rooms out of range,    *)
(* timestamps far below zero                                               *)

\* How many penalty units below zero the earliest timestamp tried lies.
FarPastMega == 3

OddTimes == {-(FarPastMega * PENALTY), -30, 0, 30}

\* One surgery that needs no nurse.
LoneInstance ==
    Instance(1, 1, 1, <<0>>, <<1>>, <<60>>, <<0>>, <<0>>, <<1>>, 1, <<<<0>>>>)

\* Two surgeries, two rooms, one nurse.
PairInstance ==
    Instance(2, 1, 2, <<0, 0>>, <<1, 1>>, <<30, 60>>, <<1, 0>>,
             <<0>>, <<1>>, 1, <<<<0, 0>>, <<1, 0>>>>)

MalformedInstances == {LoneInstance, PairInstance}

Keys == {"surgery_room", "surgery_start", "surgery_end", "nurse_assignment"}

ListsUpTo(S, n) == UNION {[1 .. k -> S] : k \in 0 .. n}

\* A key of the mapping: absent, or present with a list
Field(lists) ==
    {[present |-> FALSE, list |-> <<>>]} \cup {[present |-> TRUE, list |-> q] : q \in lists}

\* The mapping holding the present keys only
Dict(choice) == [k \in {x \in Keys : choice[x].present} |-> choice[k].list]

Malformed(inst) ==
    { Dict(choice) : choice \in
        [ surgery_room     : Field(ListsUpTo(-1 .. inst.num_rooms, inst.num_surgeries)),
          surgery_start    : Field(ListsUpTo(OddTimes, inst.num_surgeries)),
          surgery_end      : Field(ListsUpTo(OddTimes, inst.num_surgeries)),
          nurse_assignment : Field(ListsUpTo(NurseLists(inst.num_surgeries),
                                             inst.num_nurses)) ] }

EvaluateMalformed == EvaluateFrom(Malformed(self))

NextMalformed == EvaluateMalformed \/ Return

SpecMalformed == InitFrom(MalformedInstances) /\ [][NextMalformed]_vars

RoomList == Get(candidate, "surgery_room")

StartList == Get(candidate, "surgery_start")

EndList == Get(candidate, "surgery_end")

RoomsInRange == \A i \in 1 .. Len(RoomList) : RoomList[i] \in Range0(self.num_rooms)

LengthMismatch ==
    \/ Len(RoomList) # self.num_surgeries
    \/ Len(StartList) # self.num_surgeries
    \/ Len(EndList) # self.num_surgeries

\* The score is at least makespan + 1e6
HasFlatPenalty ==
    LET least == Score(Makespan(candidate), 1)
    IN  \/ result.mega > least.mega
        \/ result.mega = least.mega /\ result.rest >= least.rest

\* C1: with the per-surgery lists of any length up to num_surgeries (or
\* absent), nurse_assignment of any length up to num_nurses (or absent) and
\* every present entry in range, evaluate_solution returns a score, which
\* includes the flat length penalty when a per-surgery list is short.
C1_NoFaultOnShortLists ==
    (Evaluated /\ RoomsInRange) =>
        /\ result.status = "ok"
        /\ LengthMismatch => HasFlatPenalty

\* C2: with full-length lists and some room index negative or >= num_rooms,
\* evaluate_solution returns a score that includes the flat room penalty.
C2_OutOfRangeRoomIsPenalised ==
    ( /\ Evaluated
      /\ ~LengthMismatch
      /\ Len(Get(candidate, "nurse_assignment")) = self.num_nurses
      /\ ~RoomsInRange ) =>
        /\ result.status = "ok"
        /\ HasFlatPenalty

\* C6 (amended): whenever evaluate_solution returns and surgery_start has
\* an entry whenever surgery_end has one, the score is >= 0, however far
\* below zero the timestamps are.
C6_ScoreNonNegativeWhenPaired ==
    (Evaluated /\ result.status = "ok" /\ (StartList # <<>> \/ EndList = <<>>)) =>
        result.mega >= 0

\* Every end time lies millions of minutes below zero, and the penalties
\* of the first surgery outweigh it
C6_Witness ==
    /\ Evaluated /\ result.status = "ok"
    /\ StartList # <<>> /\ EndList # <<>>
    /\ MaxSeq(EndList) < -PENALTY
    /\ result.mega >= 0

\* C6 as stated: whenever evaluate_solution returns, the score is >= 0,
\* short lists included.
C6_Original ==
    (Evaluated /\ result.status = "ok") => result.mega >= 0

----------------------------------------------------------------------------
(* random_solution *)

\* latest_start = self.max_end[s] - self.duration[s]
latest_start(inst, s) == At(inst.max_end, s) - At(inst.duration, s)

\* random.randint(0, num_rooms - 1) for every surgery
RoomDraws(inst) == [1 .. inst.num_surgeries -> Range0(inst.num_rooms)]

\* st: min_start[s] when latest_start < min_start[s], else
\* random.randint(min_start[s], latest_start)
StartChoices(inst, s) ==
    IF latest_start(inst, s) < At(inst.min_start, s)
    THEN {At(inst.min_start, s)}
    ELSE At(inst.min_start, s) .. latest_start(inst, s)

StartDraws(inst) ==
    { f \in [1 .. inst.num_surgeries ->
               UNION {StartChoices(inst, s) : s \in Range0(inst.num_surgeries)}] :
        \A s \in Range0(inst.num_surgeries) : At(f, s) \in StartChoices(inst, s) }

\* Mutant: the sample is one nurse short.
NurseDraws_short(inst) ==
    { f \in [1 .. inst.num_surgeries -> SUBSET Range0(inst.num_nurses)] :
        \A s \in Range0(inst.num_surgeries) :
            IF At(inst.needed_nurses, s) > inst.num_nurses
            THEN At(f, s) = Range0(inst.num_nurses)
            ELSE Cardinality(At(f, s)) = Max0(At(inst.needed_nurses, s) - 1) }

\* assigned: every nurse when more are needed than exist, else
\* random.sample(range(num_nurses), needed_nurses[s]); the order of the
\* sample does not reach the result, so a draw is the set of nurses chosen
NurseDraws(inst) ==
    { f \in [1 .. inst.num_surgeries -> SUBSET Range0(inst.num_nurses)] :
        \A s \in Range0(inst.num_surgeries) :
            IF At(inst.needed_nurses, s) > inst.num_nurses
            THEN At(f, s) = Range0(inst.num_nurses)
            ELSE Cardinality(At(f, s)) = At(inst.needed_nurses, s) }

\* nurse_assignment[n] after the appends of the surgery loop
Appended(inst, nurse_draw, n) ==
    SelectSeq([i \in 1 .. inst.num_surgeries |-> i - 1],
              LAMBDA s : n \in At(nurse_draw, s))

\* Mutant: the nurses' lists are left in the order of the appends.
random_solution_unsorted(inst, room_draw, start_draw, nurse_draw) ==
    [ surgery_room     |-> room_draw,
      surgery_start    |-> start_draw,
      surgery_end      |-> [i \in 1 .. inst.num_surgeries |->
                              start_draw[i] + inst.duration[i]],
      nurse_assignment |-> [i \in 1 .. inst.num_nurses |->
                              Appended(inst, nurse_draw, i - 1)] ]

random_solution(inst, room_draw, start_draw, nurse_draw) ==
    [ surgery_room     |-> room_draw,
      surgery_start    |-> start_draw,
      surgery_end      |-> [i \in 1 .. inst.num_surgeries |->
                              start_draw[i] + inst.duration[i]],
      nurse_assignment |-> [i \in 1 .. inst.num_nurses |->
                              SortByStart(Appended(inst, nurse_draw, i - 1), start_draw)] ]

\* Instances whose windows leave Slack minutes of choice for a start time.
Slack == 2

\* Two surgeries, two rooms, two nurses; surgery 1 needs both nurses.
TightPairInstance ==
    Instance(2, 2, 2, <<0, 0>>, <<1, 1>>, <<60 - Slack, 60 - Slack>>, <<1, 2>>,
             <<0, 0>>, <<1, 1>>, 1, <<<<0, 1>>, <<0, 0>>>>)

\* Three surgeries sharing one room.
TightTrioInstance ==
    Instance(1, 2, 3, <<0, 0, 0>>, <<1, 1, 1>>, <<60 - Slack, 60 - Slack, 60>>,
             <<1, 1, 2>>, <<0, 0>>, <<1, 1>>, 1, <<<<0>>, <<0>>, <<0>>>>)

\* Surgery 1 is longer than its window and needs more nurses than exist.
OversizedInstance ==
    Instance(1, 2, 2, <<0, 0>>, <<1, 1>>, <<60 - Slack, 61>>, <<1, 3>>,
             <<0, 0>>, <<1, 1>>, 1, <<<<0>>, <<0>>>>)

GenInstances == {TightPairInstance, TightTrioInstance, OversizedInstance}

RandomSolution ==
    /\ op = "idle"
    /\ \E room_draw \in RoomDraws(self), start_draw \in StartDraws(self),
          nurse_draw \in NurseDraws(self) :
          candidate' = random_solution(self, room_draw, start_draw, nurse_draw)
    /\ op' = "random_solution"
    /\ result' = NoResult
    /\ UNCHANGED <<self, prev>>

\* The driver scores the candidate it has just drawn.
EvaluateSample ==
    /\ op = "random_solution"
    /\ result' = evaluate_solution(self, candidate)
    /\ op' = "evaluate_sample"
    /\ UNCHANGED <<self, candidate, prev>>

NextGen == RandomSolution \/ EvaluateSample \/ Return

SpecGen == InitFrom(GenInstances) /\ [][NextGen]_vars

\* C7: for any instance, windows too short and nurses too few included,
\* random_solution returns the three per-surgery lists with length
\* num_surgeries and nurse_assignment with length num_nurses, with
\* end - start = duration for every surgery and every nurse's list in
\* non-decreasing order of surgery_start.
C7_GeneratorStructuralValidity ==
    op = "random_solution" =>
        /\ DOMAIN candidate = Keys
        /\ Len(candidate.surgery_room) = self.num_surgeries
        /\ Len(candidate.surgery_start) = self.num_surgeries
        /\ Len(candidate.surgery_end) = self.num_surgeries
        /\ Len(candidate.nurse_assignment) = self.num_nurses
        /\ \A s \in Surgeries : EndOf(s) - StartOf(s) = At(self.duration, s)
        /\ \A n \in Nurses : NonDecreasing(At(candidate.nurse_assignment, n))

\* On the oversized instance a nurse's list comes out against index order
C7_Witness ==
    /\ op = "random_solution"
    /\ \E s \in Surgeries :
          /\ At(self.duration, s) > At(self.max_end, s) - At(self.min_start, s)
          /\ At(self.needed_nurses, s) > self.num_nurses
    /\ \E n \in Nurses :
          LET list == At(candidate.nurse_assignment, n)
          IN  Len(list) = 2 /\ list[1] > list[2] /\ StartOf(list[1]) < StartOf(list[2])

\* The instance leaves every surgery room in its window and has the nurses
SamplePrecondition ==
    /\ self.num_rooms >= 1 /\ self.num_nurses >= 1
    /\ \A s \in Surgeries :
          /\ At(self.duration, s) <= At(self.max_end, s) - At(self.min_start, s)
          /\ At(self.needed_nurses, s) <= self.num_nurses

\* The penalty units of room incompatibility, room overlap and shift bounds
AllowedUnits ==
      SumSeq([i \in 1 .. self.num_surgeries |-> RoomPenalty(self, candidate, i - 1)])
    + SumSeq([i \in 1 .. self.num_rooms |-> OverlapPenalty(candidate, i - 1)])
    + SumSeq([i \in 1 .. self.num_nurses |-> ShiftPenalty(self, candidate, i - 1)])

\* C10: on an instance whose windows fit the durations and whose nurses
\* suffice, evaluate_solution applied to the result of random_solution
\* returns without fault and adds no length, time-window, duration,
\* nurse-order or headcount penalty: the score is the makespan plus the
\* room-incompatibility, room-overlap and shift penalties alone.
C10_SampleInSafeDomain ==
    (op = "evaluate_sample" /\ SamplePrecondition) =>
        /\ result.status = "ok"
        /\ LengthPenalty(self, candidate) = 0
        /\ \A s \in Surgeries :
              /\ StartOf(s) >= At(self.min_start, s)
              /\ EndOf(s) <= At(self.max_end, s)
              /\ TimePenalty(self, candidate, s) = 0
              /\ HeadcountPenalty(self, candidate, s) = 0
        /\ \A n \in Nurses : OrderPenalty(candidate, n) = 0
        /\ result = Returned(Score(Makespan(candidate), AllowedUnits))

\* A drawn candidate that is scored with overlap or shift penalties only
C10_Witness ==
    /\ op = "evaluate_sample" /\ SamplePrecondition
    /\ result.status = "ok"
    /\ result.mega > 0
    /\ \E n \in Nurses :
          LET list == At(candidate.nurse_assignment, n)
          IN  Len(list) >= 2 /\ list[1] > list[2]

----------------------------------------------------------------------------
(* Single-field perturbations of an evaluated candidate *)

\* Two surgeries in one room, two nurses; surgery 0 needs both nurses.
ShiftedPairInstance ==
    Instance(1, 2, 2, <<1, 0>>, <<2, 1>>, <<30, 30>>, <<2, 1>>,
             <<0, 0>>, <<2, 2>>, 1, <<<<0>>, <<0>>>>)

PerturbInstances == {ShiftedPairInstance}

Without(list, j) == SubSeq(list, 1, j - 1) \o SubSeq(list, j + 1, Len(list))

\* The candidates that differ from cand in one start value, one end value,
\* or by one surgery removed from one nurse's list
Perturbations(cand) ==
    {[cand EXCEPT !.surgery_start[i] = t] :
        i \in 1 .. Len(cand.surgery_start), t \in TimeVals}
    \cup
    {[cand EXCEPT !.surgery_end[i] = t] :
        i \in 1 .. Len(cand.surgery_end), t \in TimeVals}
    \cup
    UNION { {[cand EXCEPT !.nurse_assignment[n] = Without(cand.nurse_assignment[n], j)] :
                j \in 1 .. Len(cand.nurse_assignment[n])} :
            n \in 1 .. Len(cand.nurse_assignment) }

EvaluateFirst == EvaluateFrom(WellFormed(self))

\* The driver changes one entry of the candidate it has scored and scores
\* the changed candidate.
Perturb ==
    /\ op = "evaluate_solution"
    /\ result.status = "ok"
    /\ \E c \in Perturbations(candidate) \ {candidate} :
          /\ candidate' = c
          /\ result' = evaluate_solution(self, c)
    /\ prev' = [candidate |-> candidate, result |-> result]
    /\ op' = "perturb"
    /\ UNCHANGED self

NextPerturb == EvaluateFirst \/ Perturb \/ Return

SpecPerturb == InitFrom(PerturbInstances) /\ [][NextPerturb]_vars

\* The violation amounts of the rules, stated on a candidate c
Shortfall(c, s) == Max0(At(self.min_start, s) - At(c.surgery_start, s))

Overrun(c, s) == Max0(At(c.surgery_end, s) - At(self.max_end, s))

Missing(c, s) ==
    Max0(At(self.needed_nurses, s)
           - Cardinality({pos \in Nurses \X (1 .. self.num_surgeries) :
                            /\ pos[2] <= Len(At(c.nurse_assignment, pos[1]))
                            /\ At(c.nurse_assignment, pos[1])[pos[2]] = s}))

\* a precedes b in the start order of a room, ties by surgery index
Before(c, a, b) ==
    \/ At(c.surgery_start, a) < At(c.surgery_start, b)
    \/ At(c.surgery_start, a) = At(c.surgery_start, b) /\ a < b

Neighbours(c, a, b) ==
    /\ At(c.surgery_room, a) = At(c.surgery_room, b)
    /\ Before(c, a, b)
    /\ ~\E x \in Surgeries :
          At(c.surgery_room, x) = At(c.surgery_room, a) /\ Before(c, a, x) /\ Before(c, x, b)

\* end-of-earlier minus start-of-later over the neighbouring pairs of room r
RoomOverlap(c, r) ==
    SumSeq([i \in 1 .. self.num_surgeries |->
              IF At(c.surgery_room, i - 1) = r /\ \E b \in Surgeries : Neighbours(c, i - 1, b)
              THEN LET b == CHOOSE b \in Surgeries : Neighbours(c, i - 1, b)
                   IN  Max0(At(c.surgery_end, i - 1) - At(c.surgery_start, b))
              ELSE 0])

Perturbed == op = "perturb" /\ result.status = "ok" /\ prev.result.status = "ok"

\* The change increases a window overrun, a room overlap amount or a
\* headcount shortfall
WorsensListed ==
    \/ \E s \in Surgeries :
          \/ Shortfall(candidate, s) > Shortfall(prev.candidate, s)
          \/ Overrun(candidate, s) > Overrun(prev.candidate, s)
          \/ Missing(candidate, s) > Missing(prev.candidate, s)
    \/ \E r \in Range0(self.num_rooms) :
          RoomOverlap(candidate, r) > RoomOverlap(prev.candidate, r)

\* No penalty term of the evaluator is lower after the change than before
NoTermDecreases ==
    /\ \A s \in Surgeries :
          /\ MinStartPenalty(self, candidate, s) >= MinStartPenalty(self, prev.candidate, s)
          /\ MaxEndPenalty(self, candidate, s) >= MaxEndPenalty(self, prev.candidate, s)
          /\ DurationPenalty(self, candidate, s) >= DurationPenalty(self, prev.candidate, s)
          /\ HeadcountPenalty(self, candidate, s) >= HeadcountPenalty(self, prev.candidate, s)
    /\ \A r \in Range0(self.num_rooms) :
          OverlapPenalty(candidate, r) >= OverlapPenalty(prev.candidate, r)
    /\ \A n \in Nurses :
          /\ OrderPenalty(candidate, n) >= OrderPenalty(prev.candidate, n)
          /\ ShiftPenalty(self, candidate, n) >= ShiftPenalty(self, prev.candidate, n)

ScoreLess(a, b) == a.mega < b.mega \/ (a.mega = b.mega /\ a.rest < b.rest)

\* C5 (amended): when a single-entry change (one start, one end, or one
\* surgery removed from one nurse's list) increases a window overrun, a room
\* overlap amount or a headcount shortfall and lowers no penalty term (the
\* duration deviation, a nurse's order or shift penalty, another window,
\* overlap or headcount amount), the score strictly increases.
C5_MonotoneWhenNothingElseImproves ==
    (Perturbed /\ WorsensListed /\ NoTermDecreases) =>
        ScoreLess(prev.result, result)

\* A nurse loses a surgery that was already short of nurses: the makespan
\* stays and the score grows
C5_Witness ==
    /\ Perturbed /\ WorsensListed /\ NoTermDecreases
    /\ candidate.surgery_end = prev.candidate.surgery_end
    /\ candidate.surgery_start = prev.candidate.surgery_start
    /\ \E s \in Surgeries : Missing(prev.candidate, s) > 0
                              /\ Missing(candidate, s) > Missing(prev.candidate, s)
    /\ ScoreLess(prev.result, result)

\* C5 as stated: every single-entry change that increases a window overrun,
\* a room overlap amount or a headcount shortfall strictly increases the score.
C5_Original ==
    (Perturbed /\ WorsensListed) => ScoreLess(prev.result, result)

====
